---- MODULE Spec2Model ----
(***************************************************************************)
(* Model of the corewa_rs Redcode front end: the data model of             *)
(* load_file.rs (Opcode, Modifier, AddressMode, Field, Instruction), the   *)
(* modifier inference Modifier::from_context, the Cleaner                  *)
(* (clean::Info::extract_from_string / parse_line), the phase transitions  *)
(* of phased_parser/phase.rs, the Deserializer                             *)
(* (parser/phase/deserialize.rs) and the Core of load_file.rs.             *)
(*                                                                         *)
(* Source text is modelled as TLA+ strings, character by character:        *)
(* splitting, trimming, upper-casing, number formatting and number         *)
(* parsing are computed on the characters as the Rust code computes them.  *)
(***************************************************************************)
EXTENDS Integers, Sequences, FiniteSets, TLC

VARIABLES
    pc,          \* position of the run: which phase / loop the program is in
    opcode,      \* Modifier::from_context: argument opcode
    a_mode,      \* Modifier::from_context: argument a_mode
    b_mode,      \* Modifier::from_context: argument b_mode
    modifier,    \* Modifier::from_context: returned value
    input,       \* Phase.buffer: the raw source text
    rest,        \* extract_from_string: physical lines the iterator has not yielded yet
    lines,       \* extract_from_string: `lines`, later Clean.lines / Expand.lines
    metadata,    \* extract_from_string: `metadata` (clean::Info)
    origin,      \* extract_from_string: local `origin`
    instructions, \* Deserialized.instructions
    error,       \* the Err a transition returned, if any
    field_default, \* what load_file::Field::default() returns in the build that runs
    core_size,   \* Core::new: the argument core_size the Core was built with
    core,        \* Core.instructions of the Core under test (self)
    rhs,         \* Core.instructions of a second Core (the rhs of ==)
    ret          \* the last call on a Core and what it returned

vars == <<pc, opcode, a_mode, b_mode, modifier, input, rest, lines, metadata, origin,
          instructions, error, field_default, core_size, core, rhs, ret>>

modVars == <<opcode, a_mode, b_mode, modifier>>
cleanVars == <<input, rest, lines, metadata, origin>>
pipeVars == <<instructions, error, field_default>>
coreVars == <<core_size, core, rhs, ret>>

(***************************************************************************)
(* Option<T>                                                               *)
(***************************************************************************)
None == [some |-> FALSE]
Some(v) == [some |-> TRUE, val |-> v]

(***************************************************************************)
(* load_file.rs: the closed enumerations and their text forms              *)
(***************************************************************************)
OpcodeNames ==
    [Dat |-> "DAT", Mov |-> "MOV", Add |-> "ADD", Sub |-> "SUB", Mul |-> "MUL",
     Div |-> "DIV", Mod |-> "MOD", Jmp |-> "JMP", Jmz |-> "JMZ", Jmn |-> "JMN",
     Djn |-> "DJN", Cmp |-> "CMP", Seq |-> "SEQ", Sne |-> "SNE", Slt |-> "SLT",
     Spl |-> "SPL", Nop |-> "NOP"]

Opcode == DOMAIN OpcodeNames

ModifierNames ==
    [A |-> "A", B |-> "B", AB |-> "AB", BA |-> "BA", F |-> "F", X |-> "X", I |-> "I"]

Modifier == DOMAIN ModifierNames

AddressModeNames ==
    [Immediate |-> "#", Direct |-> "$", IndirectA |-> "*", IndirectB |-> "@",
     PreDecIndirectA |-> "{", PreDecIndirectB |-> "<",
     PostIncIndirectA |-> "}", PostIncIndirectB |-> ">"]

AddressMode == DOMAIN AddressModeNames

\* impl Default for Opcode / Modifier / AddressMode
OpcodeDefault == "Dat"
ModifierDefault == "F"
AddressModeDefault == "Direct"

(***************************************************************************)
(* Modifier::from_context.  The value "unreachable" stands for the panic   *)
(* of the unreachable!() arm.                                              *)
(***************************************************************************)
from_context_SltAsI(op, am, bm) ==
    CASE op = "Dat" -> "F"
      [] op \in {"Jmp", "Jmz", "Jmn", "Djn", "Spl", "Nop"} -> "B"
      [] OTHER ->
            IF am = "Immediate" THEN "AB"
            ELSE IF bm = "Immediate" THEN "B"
            ELSE CASE op \in {"Mov", "Cmp", "Seq", "Sne", "Slt"} -> "I"
                   [] op \in {"Add", "Sub", "Mul", "Div", "Mod"} -> "F"
                   [] OTHER -> "unreachable"

from_context(op, am, bm) ==
    CASE op = "Dat" -> "F"
      [] op \in {"Jmp", "Jmz", "Jmn", "Djn", "Spl", "Nop"} -> "B"
      [] OTHER ->
            IF am = "Immediate" THEN "AB"
            ELSE IF bm = "Immediate" THEN "B"
            ELSE CASE op \in {"Mov", "Cmp", "Seq", "Sne"} -> "I"
                   [] op = "Slt" -> "B"
                   [] op \in {"Add", "Sub", "Mul", "Div", "Mod"} -> "F"
                   [] OTHER -> "unreachable"

(***************************************************************************)
(* Characters and strings (str::trim, splitn, split_whitespace,            *)
(* split_terminator, to_uppercase) on the ASCII characters of the inputs.  *)
(***************************************************************************)
\* char::is_whitespace (the Unicode White_Space property) on ASCII: U+0009 tab,
\* U+000A line feed, U+000B vertical tab, U+000C form feed, U+000D carriage
\* return and U+0020 space.  The vertical tab has no escape and stands in the
\* string as the character itself.
Whitespace == {" ", "\t", "\n", "", "\f", "\r"}

Ch(s, i) == SubSeq(s, i, i)

\* index of the first character of s that is in cs, 0 when there is none
FirstIn(s, cs) ==
    LET hits == {i \in 1..Len(s) : Ch(s, i) \in cs}
    IN  IF hits = {} THEN 0 ELSE CHOOSE i \in hits : \A j \in hits : i <= j

\* str::trim
trim(s) ==
    LET keep == {i \in 1..Len(s) : Ch(s, i) \notin Whitespace}
    IN  IF keep = {} THEN ""
        ELSE SubSeq(s, CHOOSE i \in keep : \A j \in keep : i <= j,
                       CHOOSE i \in keep : \A j \in keep : i >= j)

\* str::splitn(2, <any character of cs>): one or two pieces
splitn2(s, cs) ==
    LET k == FirstIn(s, cs)
    IN  IF k = 0 THEN <<s>>
        ELSE <<SubSeq(s, 1, k - 1), SubSeq(s, k + 1, Len(s))>>

RECURSIVE split(_, _)
\* str::split(<any character of cs>): the pieces between separators
split(s, cs) ==
    LET k == FirstIn(s, cs)
    IN  IF k = 0 THEN <<s>>
        ELSE <<SubSeq(s, 1, k - 1)>> \o split(SubSeq(s, k + 1, Len(s)), cs)

\* str::split_terminator('\n'): split, without a trailing empty piece
split_terminator(s) ==
    LET p == split(s, {"\n"})
    IN  IF p[Len(p)] = "" THEN SubSeq(p, 1, Len(p) - 1) ELSE p

\* str::split_whitespace: the maximal runs of non-whitespace characters
split_whitespace(s) ==
    SelectSeq(split(s, Whitespace), LAMBDA piece : piece # "")

LowerCase == <<"a","b","c","d","e","f","g","h","i","j","k","l","m",
               "n","o","p","q","r","s","t","u","v","w","x","y","z">>
UpperCase == <<"A","B","C","D","E","F","G","H","I","J","K","L","M",
               "N","O","P","Q","R","S","T","U","V","W","X","Y","Z">>

to_uppercase_char(c) ==
    IF \E i \in 1..Len(LowerCase) : LowerCase[i] = c
    THEN UpperCase[CHOOSE i \in 1..Len(LowerCase) : LowerCase[i] = c]
    ELSE c

RECURSIVE to_uppercase(_)
\* str::to_uppercase
to_uppercase(s) ==
    IF s = "" THEN "" ELSE to_uppercase_char(Head(s)) \o to_uppercase(Tail(s))

(***************************************************************************)
(* clean.rs: Info and the Cleaner                                          *)
(***************************************************************************)
\* Info::default()
InfoDefault ==
    [redcode |-> None, name |-> None, author |-> None, date |-> None,
     version |-> None, assertion |-> None, origin |-> None]

InfoTags == {"redcode", "name", "author", "date", "version", "assertion"}

\* Info::parse_line keeping the untrimmed code part
parse_line_NoTrim(self, line) ==
    LET raw == splitn2(line, {";"})
        split_line == [i \in DOMAIN raw |-> trim(raw[i])]
        split_comment == splitn2(split_line[2], Whitespace)
        value == Some(IF Len(split_comment) > 1 THEN split_comment[2] ELSE "")
        meta == IF Len(split_line) > 1 /\ split_comment[1] \in InfoTags
                THEN [self EXCEPT ![split_comment[1]] = value]
                ELSE self
    IN  [metadata |-> meta,
         line |-> IF trim(raw[1]) = "" THEN None ELSE Some(raw[1])]

\* Info::parse_line: the metadata after the line, and the code part if any
parse_line(self, line) ==
    LET split_line == [i \in DOMAIN splitn2(line, {";"}) |-> trim(splitn2(line, {";"})[i])]
        split_comment == splitn2(split_line[2], Whitespace)
        value == Some(IF Len(split_comment) > 1 THEN split_comment[2] ELSE "")
        meta == IF Len(split_line) > 1 /\ split_comment[1] \in InfoTags
                THEN [self EXCEPT ![split_comment[1]] = value]
                ELSE self
        trimmed == trim(split_line[1])
    IN  [metadata |-> meta,
         line |-> IF trimmed = "" THEN None ELSE Some(trimmed)]

\* extract_from_string: the body of the for loop, for one line that parse_line kept
\* (variant that records a later ORG/END argument instead of ignoring it)
clean_loop_body_Overwrite(st, line) ==
    LET split_line == split_whitespace(line)
        token == IF Len(split_line) >= 1 THEN Some(to_uppercase(split_line[1])) ELSE None
        pushed == [st EXCEPT !.lines = Append(@, line)]
    IN  IF token \in {Some("ORG"), Some("END")}
        THEN IF Len(split_line) >= 2
             THEN [pushed EXCEPT !.origin = Some(split_line[2])]
             ELSE IF token = Some("ORG") THEN st ELSE pushed
        ELSE pushed

\* (variant that keeps the line of an ignored ORG/END)
clean_loop_body_KeepIgnored(st, line) ==
    LET split_line == split_whitespace(line)
        token == IF Len(split_line) >= 1 THEN Some(to_uppercase(split_line[1])) ELSE None
        pushed == [st EXCEPT !.lines = Append(@, line)]
    IN  IF token \in {Some("ORG"), Some("END")}
        THEN IF Len(split_line) >= 2
             THEN IF st.origin.some
                  THEN pushed
                  ELSE [pushed EXCEPT !.origin = Some(split_line[2])]
             ELSE IF token = Some("ORG") THEN st ELSE pushed
        ELSE pushed

\* (variant that treats END without an argument like ORG without one)
clean_loop_body_DropBareEnd(st, line) ==
    LET split_line == split_whitespace(line)
        token == IF Len(split_line) >= 1 THEN Some(to_uppercase(split_line[1])) ELSE None
        pushed == [st EXCEPT !.lines = Append(@, line)]
    IN  IF token \in {Some("ORG"), Some("END")}
        THEN IF Len(split_line) >= 2
             THEN IF st.origin.some
                  THEN st
                  ELSE [pushed EXCEPT !.origin = Some(split_line[2])]
             ELSE st
        ELSE pushed

\* extract_from_string: the body of the for loop, for one line that parse_line kept.
\* st is [lines, origin]; `continue` returns st unchanged.
clean_loop_body(st, line) ==
    LET split_line == split_whitespace(line)
        token == IF Len(split_line) >= 1 THEN Some(to_uppercase(split_line[1])) ELSE None
        pushed == [st EXCEPT !.lines = Append(@, line)]
    IN  IF token \in {Some("ORG"), Some("END")}
        THEN IF Len(split_line) >= 2
             THEN IF st.origin.some
                  THEN st
                  ELSE [pushed EXCEPT !.origin = Some(split_line[2])]
             ELSE IF token = Some("ORG") THEN st ELSE pushed
        ELSE pushed

\* extract_from_string: one turn of the for loop over the physical lines.
\* st is [metadata, lines, origin]: parse_line runs inside the iterator
\* (filter_map), the loop body only on a line it kept.
clean_turn(st, physical) ==
    LET r == parse_line(st.metadata, physical)
        body == IF r.line.some
                THEN clean_loop_body([lines |-> st.lines, origin |-> st.origin], r.line.val)
                ELSE [lines |-> st.lines, origin |-> st.origin]
    IN  [metadata |-> r.metadata, lines |-> body.lines, origin |-> body.origin]

RECURSIVE clean_loop(_, _)
clean_loop(st, physicals) ==
    IF physicals = <<>> THEN st
    ELSE clean_loop(clean_turn(st, Head(physicals)), Tail(physicals))

\* Info::extract_from_string: Cleaned { lines, metadata }
extract_from_string(text) ==
    LET st == clean_loop([metadata |-> InfoDefault, lines |-> <<>>, origin |-> None],
                         split_terminator(text))
    IN  [lines |-> st.lines, metadata |-> [st.metadata EXCEPT !.origin = st.origin]]

(***************************************************************************)
(* Numbers as text: i32's Display and i32::from_str_radix(_, 10)           *)
(***************************************************************************)
I32Max == 2147483647
I32Min == -I32Max - 1

DigitChars == <<"0", "1", "2", "3", "4", "5", "6", "7", "8", "9">>
Digits == {DigitChars[i] : i \in 1..Len(DigitChars)}
DigitValue(c) == (CHOOSE i \in 1..Len(DigitChars) : DigitChars[i] = c) - 1

RECURSIVE FormatNat(_)
FormatNat(n) ==
    IF n < 10 THEN DigitChars[n + 1]
    ELSE FormatNat(n \div 10) \o DigitChars[(n % 10) + 1]

\* <i32 as Display>::fmt
FormatInt(n) ==
    IF n >= 0 THEN FormatNat(n)
    ELSE IF n = I32Min THEN "-" \o FormatNat(I32Max \div 10) \o "8"
    ELSE "-" \o FormatNat(-n)

RECURSIVE AccumulateDigits(_, _, _)
\* the checked_mul / checked_add (checked_sub for a negative number) loop
AccumulateDigits(s, acc, negative) ==
    IF s = "" THEN Some(acc)
    ELSE LET d == DigitValue(Head(s))
         IN  IF negative
             THEN IF acc < -(I32Max \div 10) \/ acc * 10 < I32Min + d
                  THEN None
                  ELSE AccumulateDigits(Tail(s), acc * 10 - d, negative)
             ELSE IF acc > I32Max \div 10 \/ acc * 10 > I32Max - d
                  THEN None
                  ELSE AccumulateDigits(Tail(s), acc * 10 + d, negative)

\* i32::from_str_radix(s, 10): Some(n), or None for the Err
from_str_radix(s) ==
    LET signed == s # "" /\ Head(s) \in {"+", "-"}
        body == IF signed THEN Tail(s) ELSE s
    IN  IF body = "" \/ \E i \in 1..Len(body) : Ch(body, i) \notin Digits
        THEN None
        ELSE AccumulateDigits(body, 0, s # "" /\ Head(s) = "-")

(***************************************************************************)
(* load_file.rs: Field, Instruction and their text                         *)
(***************************************************************************)
\* load_file::Value, as used by the Deserializer
Literal(n) == [kind |-> "Literal", n |-> n]
Label(name) == [kind |-> "Label", name |-> name]

\* Field::default() (derive Default): AddressMode::default(), 0
FieldDefault == [address_mode |-> AddressModeDefault, value |-> Literal(0)]

\* Instruction::default() (derive Default)
InstructionDefault ==
    [opcode |-> OpcodeDefault, modifier |-> ModifierDefault,
     field_a |-> FieldDefault, field_b |-> FieldDefault]

\* impl ToString for Field
FieldToString(f) == AddressModeNames[f.address_mode] \o FormatInt(f.value.n)

\* impl ToString for Instruction
InstructionToString(i) ==
    OpcodeNames[i.opcode] \o " " \o FieldToString(i.field_a) \o ", " \o FieldToString(i.field_b)

\* enum_string!: FromStr, the inverse of the text tables
OpcodeFromStr(s) ==
    IF \E v \in Opcode : OpcodeNames[v] = s
    THEN Some(CHOOSE v \in Opcode : OpcodeNames[v] = s) ELSE None
ModifierFromStr(s) ==
    IF \E v \in Modifier : ModifierNames[v] = s
    THEN Some(CHOOSE v \in Modifier : ModifierNames[v] = s) ELSE None
AddressModeFromStr(s) ==
    IF \E v \in AddressMode : AddressModeNames[v] = s
    THEN Some(CHOOSE v \in AddressMode : AddressModeNames[v] = s) ELSE None

(***************************************************************************)
(* The instruction grammar (grammar::parse), from the specification:       *)
(*     [Label] Opcode[.Modifier] Field ["," Field]                         *)
(*     Field = [AddressModeSigil] Expr,  Expr = Number | Label             *)
(*     Number = [+-] digit+,  Label = letter (letter | digit)*             *)
(* A leading identifier that is not an opcode mnemonic is the label of the *)
(* line.  Whitespace may separate the tokens.  The result is the parse     *)
(* tree that parse_instruction walks: the Operation is its first pair, the *)
(* label is not among the pairs.                                           *)
(***************************************************************************)
Letters == {LowerCase[i] : i \in 1..Len(LowerCase)}
              \cup {UpperCase[i] : i \in 1..Len(UpperCase)} \cup {"_"}
Sigils == {AddressModeNames[m] : m \in AddressMode}

\* length of the longest prefix of s made of characters of cs
SpanLen(s, cs) ==
    LET bad == {i \in 1..Len(s) : Ch(s, i) \notin cs}
    IN  IF bad = {} THEN Len(s) ELSE (CHOOSE i \in bad : \A j \in bad : i <= j) - 1

Drop(s, n) == SubSeq(s, n + 1, Len(s))
\* the grammar's implicit WHITESPACE between tokens
GrammarWhitespace == {" ", "\t", "\r", "\n"}
SkipWs(s) == Drop(s, SpanLen(s, GrammarWhitespace))

IsIdentifier(s) ==
    s # "" /\ Head(s) \in Letters /\ SpanLen(s, Letters \cup Digits) = Len(s)

\* The parser state st is [ok, rest, label, opcode, modifier, mode, fields]: rest
\* is the text not yet consumed, mode the sigil read for the field being parsed.
ParseStart(line) ==
    [ok |-> TRUE, rest |-> line, label |-> None, opcode |-> "", modifier |-> None,
     mode |-> None, fields |-> <<>>]

Fail(st) == [st EXCEPT !.ok = FALSE]

P_Ws(st) == [st EXCEPT !.rest = SkipWs(@)]

\* length of the identifier at the start of s, 0 when there is none
LeadingIdentifierLen(s) ==
    IF s # "" /\ Head(s) \in Letters THEN SpanLen(s, Letters \cup Digits) ELSE 0

IsMnemonic(word) == OpcodeFromStr(to_uppercase(word)).some

\* [Label]: a leading identifier that is not an opcode mnemonic
P_LabelPrefix(st) ==
    IF /\ st.ok
       /\ LeadingIdentifierLen(st.rest) > 0
       /\ ~IsMnemonic(SubSeq(st.rest, 1, LeadingIdentifierLen(st.rest)))
    THEN [st EXCEPT !.label = Some(SubSeq(st.rest, 1, LeadingIdentifierLen(st.rest))),
                    !.rest = Drop(st.rest, LeadingIdentifierLen(st.rest))]
    ELSE st

\* Opcode: the leading run of letters, one of the 17 mnemonics in any case
P_Opcode(st) ==
    IF st.ok /\ OpcodeFromStr(to_uppercase(SubSeq(st.rest, 1, SpanLen(st.rest, Letters)))).some
    THEN [st EXCEPT !.opcode = SubSeq(st.rest, 1, SpanLen(st.rest, Letters)),
                    !.rest = Drop(st.rest, SpanLen(st.rest, Letters))]
    ELSE Fail(st)

\* ["." Modifier]: directly after the opcode
P_Modifier(st) ==
    IF st.ok /\ st.rest # "" /\ Head(st.rest) = "."
    THEN IF ModifierFromStr(to_uppercase(
                SubSeq(Tail(st.rest), 1, SpanLen(Tail(st.rest), Letters)))).some
         THEN [st EXCEPT !.modifier = Some(SubSeq(Tail(st.rest), 1,
                                                  SpanLen(Tail(st.rest), Letters))),
                         !.rest = Drop(Tail(st.rest), SpanLen(Tail(st.rest), Letters))]
         ELSE Fail(st)
    ELSE st

\* the operation must end where the opcode or modifier ends
P_OperationEnd(st) ==
    IF st.ok /\ st.rest # "" /\ Head(st.rest) \in Letters \cup Digits \cup {"."}
    THEN Fail(st) ELSE st

\* [AddressModeSigil]
P_Mode(st) ==
    IF st.ok /\ st.rest # "" /\ Head(st.rest) \in Sigils
    THEN [st EXCEPT !.mode = Some(Head(st.rest)), !.rest = Tail(st.rest)]
    ELSE [st EXCEPT !.mode = None]

SignLen(s) == IF s # "" /\ Head(s) \in {"+", "-"} THEN 1 ELSE 0
NumberLen(s) ==
    IF SpanLen(Drop(s, SignLen(s)), Digits) = 0 THEN 0
    ELSE SignLen(s) + SpanLen(Drop(s, SignLen(s)), Digits)
IdentifierLen(s) ==
    IF s # "" /\ Head(s) \in Letters THEN SpanLen(s, Letters \cup Digits) ELSE 0

\* Expr = Number | Label; completes the field
P_Expr(st) ==
    IF ~st.ok THEN st
    ELSE IF NumberLen(st.rest) > 0
    THEN [st EXCEPT !.rest = Drop(st.rest, NumberLen(st.rest)),
                    !.fields = Append(@, [mode |-> st.mode, rule |-> "Number",
                                          text |-> SubSeq(st.rest, 1, NumberLen(st.rest))])]
    ELSE IF IdentifierLen(st.rest) > 0
    THEN [st EXCEPT !.rest = Drop(st.rest, IdentifierLen(st.rest)),
                    !.fields = Append(@, [mode |-> st.mode, rule |-> "Label",
                                          text |-> SubSeq(st.rest, 1, IdentifierLen(st.rest))])]
    ELSE Fail(st)

\* Field = [AddressModeSigil] Expr
P_Field(st) == P_Expr(P_Ws(P_Mode(P_Ws(st))))

\* ["," Field]
P_OptionalFieldB(st) ==
    IF st.ok /\ st.rest # "" /\ Head(st.rest) = ","
    THEN P_Field([st EXCEPT !.rest = Tail(st.rest)])
    ELSE st

\* nothing may follow the instruction
P_End(st) == IF st.ok /\ st.rest # "" THEN Fail(st) ELSE st

\* [Label] Operation, Operation = Opcode[.Modifier]
P_Operation(line) ==
    P_OperationEnd(P_Modifier(P_Opcode(P_Ws(P_LabelPrefix(P_Ws(ParseStart(line)))))))

\* Instruction: [ok, label, opcode, modifier, fields]
GrammarInstruction(line) ==
    P_End(P_Ws(P_OptionalFieldB(P_Ws(P_Field(P_Operation(line))))))

ClassifyLine(line, tree) ==
    IF trim(line) = "" THEN [kind |-> "Empty"]
    ELSE IF tree.ok THEN [kind |-> "Instruction", tree |-> tree]
    ELSE IF IsIdentifier(trim(line)) THEN [kind |-> "Label"]
    ELSE [kind |-> "Err"]

\* grammar::parse(line): Err, no pair at all, an Instruction pair, or another rule
GrammarParse(line) == ClassifyLine(line, GrammarInstruction(line))

(***************************************************************************)
(* deserialize.rs.  A panic (expect / unwrap) is the value None of the     *)
(* parse_* operators and the result kind "Panic" of deserialize.           *)
(***************************************************************************)
\* parse_opcode / parse_modifier: from_str(to_uppercase).unwrap()
parse_opcode(text) == OpcodeFromStr(to_uppercase(text))
parse_modifier(text) == ModifierFromStr(to_uppercase(text))

\* parse_value: Some(Value), or None for the panic of expect or of unreachable!()
LiteralOf(parsed) == IF parsed.some THEN Some(Literal(parsed.val)) ELSE None

parse_value(expr) ==
    IF expr.rule = "Number"
    THEN LiteralOf(from_str_radix(expr.text))
    ELSE IF expr.rule = "Label"
    THEN Some(Label(expr.text))
    ELSE None

\* parse_field: Some(Field), or None for a panic
parse_field(field) ==
    LET address_mode == IF field.mode.some
                        THEN AddressModeFromStr(field.mode.val)
                        ELSE Some(AddressModeDefault)
        value == parse_value(field)
    IN  IF address_mode.some /\ value.some
        THEN Some([address_mode |-> address_mode.val, value |-> value.val])
        ELSE None

\* Field::immediate
Field_immediate(value) == [address_mode |-> "Immediate", value |-> Literal(value)]

\* load_file::Field::default() as parse_instruction calls it.  The load_file
\* module parse_instruction is built against (the one with Value::{Literal,
\* Label}) is not the load_file.rs of the Core: Field (derive Default) of
\* load_file.rs gives (Direct, 0), the test parse_simple_file of deserialize.rs
\* asserts Field::immediate(0) for the absent field B of "jmp -4".  Which of the
\* two a build returns is fixed when the run starts (field_default).
FieldDefaults == {FieldDefault, Field_immediate(0)}

\* parse_instruction: Some(Instruction), or None for a panic.
\* Modifier::default_88_to_94 is Modifier::from_context of load_file.rs.
parse_instruction(tree) ==
    LET opcode_ == parse_opcode(tree.opcode)
        maybe_modifier == IF tree.modifier.some THEN parse_modifier(tree.modifier.val) ELSE None
        field_a == parse_field(tree.fields[1])
        field_b == IF Len(tree.fields) >= 2 THEN parse_field(tree.fields[2])
                   ELSE Some(field_default)
    IN  IF ~opcode_.some \/ (tree.modifier.some /\ ~maybe_modifier.some)
           \/ ~field_a.some \/ ~field_b.some
        THEN None
        ELSE Some([opcode |-> opcode_.val,
                   modifier |-> IF maybe_modifier.some THEN maybe_modifier.val
                                ELSE from_context(opcode_.val, field_a.val.address_mode,
                                                  field_b.val.address_mode),
                   field_a |-> field_a.val,
                   field_b |-> field_b.val])

\* one turn of the for loop of deserialize, on the parse result of the line
PushOrPanic(parsed) ==
    IF parsed.some THEN [kind |-> "Push", instruction |-> parsed.val]
    ELSE [kind |-> "Panic"]

deserialize_line(line, parse_result) ==
    IF parse_result.kind = "Err" THEN [kind |-> "Err", line |-> line]
    ELSE IF parse_result.kind = "Instruction"
    THEN PushOrPanic(parse_instruction(parse_result.tree))
    ELSE [kind |-> "Skip"]

RECURSIVE deserialize_loop(_, _)
\* the for loop of deserialize: [kind |-> "Ok", instructions], [kind |-> "Err"]
\* (the `?` on grammar::parse) or [kind |-> "Panic"]
deserialize_loop(ls, acc) ==
    IF ls = <<>> THEN [kind |-> "Ok", instructions |-> acc]
    ELSE LET step == deserialize_line(Head(ls), GrammarParse(Head(ls)))
         IN  IF step.kind = "Push"
             THEN deserialize_loop(Tail(ls), Append(acc, step.instruction))
             ELSE IF step.kind = "Skip"
             THEN deserialize_loop(Tail(ls), acc)
             ELSE step

\* deserialize(lines)
deserialize(ls) == deserialize_loop(ls, <<>>)

(***************************************************************************)
(* expansion::expand, from the specification (section 4.2): pass 1 binds   *)
(* each label declaration (a bare identifier on its own line) to the index *)
(* of the next instruction and removes the line; pass 2 replaces, in the   *)
(* fields of every instruction line, each bound label by the signed        *)
(* distance target - current.  ORG/END lines take no index and pass        *)
(* through.  A label in front of an instruction stays on its line and is   *)
(* not a declaration.  EQU substitution is not modelled.                   *)
(***************************************************************************)
IsLabelDeclaration(line) == IsIdentifier(line) /\ ~GrammarInstruction(line).ok

IsDirectiveLine(line) ==
    /\ split_whitespace(line) # <<>>
    /\ to_uppercase(split_whitespace(line)[1]) \in {"ORG", "END"}

RECURSIVE collect_labels(_, _, _)
\* pass 1: the symbol table, a sequence of [name, index]
collect_labels(ls, index, table) ==
    IF ls = <<>> THEN table
    ELSE IF IsLabelDeclaration(Head(ls))
    THEN collect_labels(Tail(ls), index, Append(table, [name |-> Head(ls), index |-> index]))
    ELSE IF IsDirectiveLine(Head(ls))
    THEN collect_labels(Tail(ls), index, table)
    ELSE collect_labels(Tail(ls), index + 1, table)

IsBound(table, name) == \E k \in 1..Len(table) : table[k].name = name
Lookup(table, name) ==
    table[CHOOSE k \in 1..Len(table) :
            /\ table[k].name = name
            /\ \A j \in 1..(k - 1) : table[j].name # name].index

RECURSIVE substitute(_, _, _, _)
\* pass 2 on the field text of one instruction: every bound identifier becomes
\* its offset; an unbound one is left as it is, or becomes "0" when zero is set
substitute(s, table, current, zero) ==
    IF s = "" THEN ""
    ELSE IF Head(s) \in Letters \cup Digits
    THEN LET word == SubSeq(s, 1, SpanLen(s, Letters \cup Digits))
             replaced == IF Head(s) \in Digits THEN word
                         ELSE IF IsBound(table, word)
                         THEN FormatInt(Lookup(table, word) - current)
                         ELSE IF zero THEN "0" ELSE word
         IN  replaced \o substitute(Drop(s, Len(word)), table, current, zero)
    ELSE Head(s) \o substitute(Tail(s), table, current, zero)

\* the label and the operation ([Label] Opcode[.Modifier]) at the start of an
\* instruction line; on a line that has none, the leading run of letters
OperationLenOf(line, st) ==
    IF st.ok THEN Len(line) - Len(st.rest) ELSE SpanLen(line, Letters)

OperationLen(line) == OperationLenOf(line, P_Operation(line))

SplitAt(line, n, table, current, zero) ==
    SubSeq(line, 1, n) \o substitute(Drop(line, n), table, current, zero)

expand_line(line, table, current, zero) ==
    SplitAt(line, OperationLen(line), table, current, zero)

RECURSIVE expand_lines(_, _, _, _)
expand_lines(ls, table, index, zero) ==
    IF ls = <<>> THEN <<>>
    ELSE IF IsLabelDeclaration(Head(ls))
    THEN expand_lines(Tail(ls), table, index, zero)
    ELSE IF IsDirectiveLine(Head(ls))
    THEN <<Head(ls)>> \o expand_lines(Tail(ls), table, index, zero)
    ELSE <<expand_line(Head(ls), table, index, zero)>>
            \o expand_lines(Tail(ls), table, index + 1, zero)

\* the identifiers left in the fields of an expanded line
LabelTexts(tree) ==
    IF tree.ok
    THEN {tree.fields[k].text :
            k \in {j \in 1..Len(tree.fields) : tree.fields[j].rule = "Label"}}
    ELSE {}

SymbolsIn(line) == LabelTexts(GrammarInstruction(line))

\* expansion::expand(lines): the expanded lines, and the symbols never defined
expand(ls) ==
    LET table == collect_labels(ls, 0, <<>>)
        out == expand_lines(ls, table, 0, FALSE)
    IN  [lines |-> out,
         zeroed |-> expand_lines(ls, table, 0, TRUE),
         unknown |-> UNION {SymbolsIn(out[k]) : k \in 1..Len(out)}]

(***************************************************************************)
(* Inputs of the Cleaner runs                                              *)
(***************************************************************************)
MaxLines == 3

CleanLineSet ==
    {"ORG 5", "org\t7", "END 2", "ORG", "end",
     "  MOV 0, 1 ; name  my  warrior ",
     ";name foo", "; author Ian C", ";redcode", " ; nothing here", "", "baz.",
     "\fEND\f2 ;version\f0.1"}

RECURSIVE Join(_, _)
Join(ls, sep) ==
    IF ls = <<>> THEN ""
    ELSE IF Len(ls) = 1 THEN ls[1]
    ELSE ls[1] \o sep \o Join(Tail(ls), sep)

CleanInputs ==
    {Join(ls, "\n") : ls \in UNION {[1..n -> CleanLineSet] : n \in 0..MaxLines}}

(***************************************************************************)
(* Modifier::from_context as a run: arguments, then the call               *)
(***************************************************************************)
InitModifier ==
    /\ pc = "args"
    /\ opcode \in Opcode
    /\ a_mode \in AddressMode
    /\ b_mode \in AddressMode
    /\ modifier = ModifierDefault
    /\ input = "" /\ rest = <<>> /\ lines = <<>>
    /\ metadata = InfoDefault /\ origin = None
    /\ instructions = <<>> /\ error = None
    /\ field_default = FieldDefault
    /\ core_size = 0 /\ core = <<>> /\ rhs = <<>> /\ ret = None

Infer ==
    /\ pc = "args"
    /\ modifier' = from_context(opcode, a_mode, b_mode)
    /\ pc' = IF modifier' = "unreachable" THEN "panic" ELSE "inferred"
    /\ UNCHANGED <<opcode, a_mode, b_mode>>
    /\ UNCHANGED cleanVars
    /\ UNCHANGED pipeVars
    /\ UNCHANGED coreVars

NextModifier == Infer

SpecModifier == InitModifier /\ [][NextModifier]_vars

(***************************************************************************)
(* The Cleaner as a run: Phase<Raw> -> Phase<Clean>                        *)
(***************************************************************************)
InitClean ==
    /\ pc = "raw"
    /\ input \in CleanInputs
    /\ rest = <<>> /\ lines = <<>>
    /\ metadata = InfoDefault /\ origin = None
    /\ opcode = OpcodeDefault /\ a_mode = AddressModeDefault
    /\ b_mode = AddressModeDefault /\ modifier = ModifierDefault
    /\ instructions = <<>> /\ error = None
    /\ field_default = FieldDefault
    /\ core_size = 0 /\ core = <<>> /\ rhs = <<>> /\ ret = None

\* extract_from_string, entry: the locals and the line iterator
CleanBegin ==
    /\ pc = "raw"
    /\ metadata' = InfoDefault
    /\ origin' = None
    /\ lines' = <<>>
    /\ rest' = split_terminator(input)
    /\ pc' = "cleaning"
    /\ UNCHANGED input
    /\ UNCHANGED modVars
    /\ UNCHANGED coreVars
    /\ UNCHANGED pipeVars

\* extract_from_string, one turn of the loop: the iterator's filter_map(parse_line)
\* on the next physical line, then the loop body if the line was kept
CleanLine ==
    /\ pc = "cleaning"
    /\ rest # <<>>
    /\ LET st == clean_turn([metadata |-> metadata, lines |-> lines, origin |-> origin],
                            Head(rest))
       IN  /\ metadata' = st.metadata
           /\ lines' = st.lines
           /\ origin' = st.origin
    /\ rest' = Tail(rest)
    /\ UNCHANGED <<pc, input>>
    /\ UNCHANGED modVars
    /\ UNCHANGED coreVars
    /\ UNCHANGED pipeVars

\* extract_from_string, exit: metadata.origin = origin; Cleaned { lines, metadata }
CleanEnd ==
    /\ pc = "cleaning"
    /\ rest = <<>>
    /\ metadata' = [metadata EXCEPT !.origin = origin]
    /\ pc' = "clean"
    /\ UNCHANGED <<input, rest, lines, origin>>
    /\ UNCHANGED modVars
    /\ UNCHANGED coreVars
    /\ UNCHANGED pipeVars

NextClean == CleanBegin \/ CleanLine \/ CleanEnd

SpecClean == InitClean /\ [][NextClean]_vars

(***************************************************************************)
(* The whole pipeline as a run:                                            *)
(* Phase<Raw> -> Phase<Clean> -> Phase<Expand> -> Phase<Deserialized>.     *)
(***************************************************************************)
MaxProgram == 3

SourceOpcodes ==
    {"dat", "MOV", "add", "sub", "mul", "div", "mod", "jmp", "jmz", "jmn", "djn",
     "cmp", "seq", "sne", "slt", "spl", "Nop"}
SourceModifiers == {"", ".a", ".F"}
SourceFieldA == {"1", "#0", "-4", "@+12"}
SourceFieldB == {"", ", 3", ", #12", ",<-1"}

\* one instruction per input
SingleLineInputs ==
    {op \o m \o " " \o fa \o fb :
        op \in SourceOpcodes, m \in SourceModifiers,
        fa \in SourceFieldA, fb \in SourceFieldB}

ProgramLineSet ==
    {"start", "jmp start", "mov.ab #1, nowhere", "dat #0, #0", "loop", "djn loop, <-2",
     "top jmp -4"}

\* programs with label declarations and references
ProgramInputs ==
    {Join(ls, "\n") : ls \in UNION {[1..n -> ProgramLineSet] : n \in 1..MaxProgram}}

\* programs with a line the grammar rejects, or a number outside i32
FailingInputs ==
    {"mov 0, 1\nmov 0,\ndat 1", "foo 1, 2", "mov 0, 1\ndat 2147483648",
     "dat #1, -2147483649\nmov 0, 1", "dat 2147483647, -2147483648"}

PipeInputs == SingleLineInputs \cup ProgramInputs \cup FailingInputs

InitPipeline ==
    /\ pc = "raw"
    /\ input \in PipeInputs
    /\ rest = <<>> /\ lines = <<>>
    /\ metadata = InfoDefault /\ origin = None
    /\ opcode = OpcodeDefault /\ a_mode = AddressModeDefault
    /\ b_mode = AddressModeDefault /\ modifier = ModifierDefault
    /\ instructions = <<>> /\ error = None
    /\ field_default \in FieldDefaults
    /\ core_size = 0 /\ core = <<>> /\ rhs = <<>> /\ ret = None

\* impl From<Phase<Clean>> for Phase<Expand>: the transition is infallible, it
\* has no Err to return.  When expand meets a symbol that is never defined the
\* call either comes back with lines (the reference left in place, or replaced
\* by a literal) or panics.
ExpandFromClean ==
    /\ pc = "clean"
    /\ LET r == expand(lines)
       IN  IF r.unknown = {}
           THEN lines' = r.lines /\ pc' = "expand"
           ELSE \E outcome \in {"kept", "zeroed", "panic"} :
                   /\ lines' = CASE outcome = "kept" -> r.lines
                                 [] outcome = "zeroed" -> r.zeroed
                                 [] outcome = "panic" -> lines
                   /\ pc' = IF outcome = "panic" THEN "panic" ELSE "expand"
    /\ UNCHANGED <<input, rest, metadata, origin>>
    /\ UNCHANGED modVars
    /\ UNCHANGED coreVars
    /\ UNCHANGED pipeVars

\* impl TryFrom<Phase<Expand>> for Phase<Deserialized>
DeserializeFromExpand ==
    /\ pc = "expand"
    /\ LET r == deserialize(lines)
       IN  /\ pc' = CASE r.kind = "Ok" -> "deserialized"
                      [] r.kind = "Err" -> "error"
                      [] r.kind = "Panic" -> "panic"
           /\ instructions' = IF r.kind = "Ok" THEN r.instructions ELSE instructions
           /\ error' = IF r.kind = "Err"
                       THEN Some([kind |-> "ParseError", line |-> r.line])
                       ELSE error
    /\ UNCHANGED field_default
    /\ UNCHANGED cleanVars
    /\ UNCHANGED modVars
    /\ UNCHANGED coreVars

RECURSIVE dump_lines(_)
\* the fold of Core::dump_all over instructions: each to_string followed by "\n"
dump_lines(is) ==
    IF is = <<>> THEN ""
    ELSE InstructionToString(Head(is)) \o "\n" \o dump_lines(Tail(is))

NextPipeline ==
    \/ CleanBegin \/ CleanLine \/ CleanEnd
    \/ ExpandFromClean \/ DeserializeFromExpand

SpecPipeline == InitPipeline /\ [][NextPipeline]_vars

(***************************************************************************)
(* load_file.rs: Core, a fixed-size vector of instructions, as a run of    *)
(* calls on a Core built by Core::new(core_size) and on a second Core.     *)
(* Indices are usize: they count from 0 and are never negative.            *)
(***************************************************************************)
MaxCoreSize == 2

\* Core::new: vec![Instruction::default(); core_size]
Core_new(size) == [k \in 1..size |-> InstructionDefault]

\* Core::get: Vec::get, None when the index is out of range
Core_get(is, index) == IF index < Len(is) THEN Some(is[index + 1]) ELSE None

\* Core::set with the index taken modulo the length
Core_set_Wrap(is, index, value) ==
    IF Len(is) = 0 THEN [panicked |-> TRUE, instructions |-> is]
    ELSE [panicked |-> FALSE,
          instructions |-> [is EXCEPT ![(index % Len(is)) + 1] = value]]

\* Core::set: self.instructions[index] = value; indexing out of range panics
\* before anything is written
Core_set(is, index, value) ==
    IF index < Len(is)
    THEN [panicked |-> FALSE, instructions |-> [is EXCEPT ![index + 1] = value]]
    ELSE [panicked |-> TRUE, instructions |-> is]

\* Core::dump_all: the fold over every instruction
Core_dump_all(is) == dump_lines(is)

IsNotDefault(i) == i # InstructionDefault

\* Core::dump without the filter
Core_dump_NoFilter(is) == dump_lines(is)

\* Core::dump: the fold over the instructions the filter lets through
Core_dump(is) == dump_lines(SelectSeq(is, IsNotDefault))

RECURSIVE Core_eq(_, _)
\* impl PartialEq for Core: the loop over self.instructions.iter().zip(rhs...);
\* zip ends with the shorter of the two
Core_eq(self, other) ==
    IF self = <<>> \/ other = <<>> THEN TRUE
    ELSE IF Head(self) # Head(other) THEN FALSE
    ELSE Core_eq(Tail(self), Tail(other))

\* arguments of the calls
CoreSizes == 0..MaxCoreSize
CoreIndices == 0..MaxCoreSize
Imp ==
    [opcode |-> "Mov", modifier |-> "I",
     field_a |-> FieldDefault,
     field_b |-> [address_mode |-> "Direct", value |-> Literal(1)]]
DatA == [InstructionDefault EXCEPT !.modifier = "A"]
CoreValues == {InstructionDefault, Imp, DatA}

InitCore ==
    /\ pc = "core"
    /\ core_size \in CoreSizes
    /\ core = Core_new(core_size)
    /\ rhs \in {Core_new(n) : n \in CoreSizes}
    /\ ret = [op |-> "new"]
    /\ opcode = OpcodeDefault /\ a_mode = AddressModeDefault
    /\ b_mode = AddressModeDefault /\ modifier = ModifierDefault
    /\ input = "" /\ rest = <<>> /\ lines = <<>>
    /\ metadata = InfoDefault /\ origin = None
    /\ instructions = <<>> /\ error = None
    /\ field_default = FieldDefault

CoreUnchanged ==
    /\ UNCHANGED core_size
    /\ UNCHANGED modVars
    /\ UNCHANGED cleanVars
    /\ UNCHANGED pipeVars

\* core.get(index)
Get ==
    /\ pc = "core"
    /\ \E index \in CoreIndices :
          ret' = [op |-> "get", index |-> index, value |-> Core_get(core, index)]
    /\ UNCHANGED <<pc, core, rhs>>
    /\ CoreUnchanged

\* core.set(index, value)
Set ==
    /\ pc = "core"
    /\ \E index \in CoreIndices, value \in CoreValues :
          LET r == Core_set(core, index, value)
          IN  /\ core' = r.instructions
              /\ pc' = IF r.panicked THEN "panic" ELSE "core"
              /\ ret' = [op |-> "set", index |-> index, value |-> value]
    /\ UNCHANGED rhs
    /\ CoreUnchanged

\* rhs.set(index, value), on the second Core
SetRhs ==
    /\ pc = "core"
    /\ \E index \in CoreIndices, value \in CoreValues :
          LET r == Core_set(rhs, index, value)
          IN  /\ rhs' = r.instructions
              /\ pc' = IF r.panicked THEN "panic" ELSE "core"
              /\ ret' = [op |-> "set_rhs", index |-> index, value |-> value]
    /\ UNCHANGED core
    /\ CoreUnchanged

\* core.dump_all()
DumpAll ==
    /\ pc = "core"
    /\ ret' = [op |-> "dump_all", text |-> Core_dump_all(core)]
    /\ UNCHANGED <<pc, core, rhs>>
    /\ CoreUnchanged

\* core.dump()
DumpNonDefault ==
    /\ pc = "core"
    /\ ret' = [op |-> "dump", text |-> Core_dump(core)]
    /\ UNCHANGED <<pc, core, rhs>>
    /\ CoreUnchanged

\* core == rhs
Eq ==
    /\ pc = "core"
    /\ ret' = [op |-> "eq", value |-> Core_eq(core, rhs)]
    /\ UNCHANGED <<pc, core, rhs>>
    /\ CoreUnchanged

NextCore == Get \/ Set \/ SetRhs \/ DumpAll \/ DumpNonDefault \/ Eq

SpecCore == InitCore /\ [][NextCore]_vars

(***************************************************************************)
(* Vocabulary of the properties, written from the claims' words            *)
(***************************************************************************)
\* the physical lines of the input, and how many the Cleaner has consumed
Physical == split_terminator(input)
Consumed == Len(Physical) - Len(rest)

\* the code part of a physical line: the text before the first ';', trimmed
CodeOf(l) ==
    LET k == FirstIn(l, {";"})
    IN  trim(IF k = 0 THEN l ELSE SubSeq(l, 1, k - 1))

\* the comment of a physical line (text after the first ';'), if it has one
HasComment(l) == FirstIn(l, {";"}) # 0
CommentOf(l) == SubSeq(l, FirstIn(l, {";"}) + 1, Len(l))

Tokens(l) == split_whitespace(CodeOf(l))
Keyword(l) == IF Tokens(l) = <<>> THEN "" ELSE to_uppercase(Tokens(l)[1])
IsDirective(l) == Keyword(l) \in {"ORG", "END"}
HasArg(l) == Len(Tokens(l)) >= 2

\* indices of the ORG/END lines that carry an argument, among the first n lines
ArgDirectives(n) ==
    {i \in 1..n : IsDirective(Physical[i]) /\ HasArg(Physical[i])}

Least(S) == CHOOSE i \in S : \A j \in S : i <= j
Greatest(S) == CHOOSE i \in S : \A j \in S : i >= j

RECURSIVE IsSubsequence(_, _)
\* a occurs in b in the same relative order
IsSubsequence(a, b) ==
    IF a = <<>> THEN TRUE
    ELSE IF b = <<>> THEN FALSE
    ELSE IF Head(a) = Head(b) THEN IsSubsequence(Tail(a), Tail(b))
    ELSE IsSubsequence(a, Tail(b))

\* the Cleaner is about to consume the physical line Head(rest)
AtLine == pc = "cleaning" /\ rest # <<>>

(***************************************************************************)
(* C1: Modifier::from_context returns, for each of the 17 opcodes and each *)
(* of the 8x8 mode pairs, the modifier of the ICWS'88-to-'94 table, and    *)
(* never takes the unreachable arm.                                        *)
(***************************************************************************)
TableModifier(op, am, bm) ==
    IF op = "Dat" THEN "F"
    ELSE IF op \in {"Jmp", "Jmz", "Jmn", "Djn", "Spl", "Nop"} THEN "B"
    ELSE IF am = "Immediate" THEN "AB"
    ELSE IF bm = "Immediate" THEN "B"
    ELSE IF op \in {"Mov", "Cmp", "Seq", "Sne"} THEN "I"
    ELSE IF op = "Slt" THEN "B"
    ELSE IF op \in {"Add", "Sub", "Mul", "Div", "Mod"} THEN "F"
    ELSE "not in the table"

\* C1: every from_context result is the table's modifier; the unreachable arm is never taken
C1_FromContextMatchesTable ==
    /\ Cardinality(Opcode) = 17 /\ Cardinality(AddressMode) = 8
    /\ pc # "panic"
    /\ pc = "inferred" =>
          /\ modifier \in Modifier
          /\ modifier = TableModifier(opcode, a_mode, b_mode)

C1_Witness ==
    /\ pc = "inferred"
    /\ opcode = "Slt" /\ a_mode = "PostIncIndirectA" /\ b_mode = "Direct"
    /\ modifier = "B"

(***************************************************************************)
(* C3: the origin is set at most once.  After cleaning, metadata.origin is *)
(* the second token of the first ORG/END line that has one (unset when     *)
(* there is none); a later ORG/END line with an argument is dropped from   *)
(* the output and leaves the stored origin unchanged.                      *)
(***************************************************************************)
ExpectedOrigin ==
    LET D == ArgDirectives(Len(Physical))
    IN  IF D = {} THEN None ELSE Some(Tokens(Physical[Least(D)])[2])

\* C3: the first ORG/END argument is the origin; later ORG/END lines with an argument are dropped
C3_OriginFirstWins ==
    /\ [](pc = "clean" => metadata.origin = ExpectedOrigin)
    /\ [][origin.some => origin' = origin]_vars
    /\ [][(/\ AtLine
           /\ IsDirective(Head(rest)) /\ HasArg(Head(rest))
           /\ ArgDirectives(Consumed) # {})
          => (lines' = lines /\ origin' = origin)]_vars

C3_Witness ==
    /\ pc = "clean"
    /\ Cardinality(ArgDirectives(Len(Physical))) >= 2
    /\ Keyword(Physical[Least(ArgDirectives(Len(Physical)))]) = "END"
    /\ metadata.origin = Some("2")
    /\ Len(lines) = 1

(***************************************************************************)
(* C4 (as claimed): an ORG/END line with a second token met after the      *)
(* origin was recorded has its value discarded but is retained in the      *)
(* output, as when the origin was not yet recorded.                        *)
(***************************************************************************)
C4_Original_IgnoredDirectiveRetained ==
    [][(AtLine /\ IsDirective(Head(rest)) /\ HasArg(Head(rest)) /\ origin.some)
       => (origin' = origin /\ lines' = Append(lines, CodeOf(Head(rest))))]_vars

(***************************************************************************)
(* C4 (amended): an ORG/END line with a second token met after the origin  *)
(* was recorded has its value discarded and is dropped from the output;    *)
(* the line is retained (and its token recorded) only when no origin was   *)
(* recorded yet.                                                           *)
(***************************************************************************)
C4_IgnoredDirectiveDropped ==
    /\ [][(AtLine /\ IsDirective(Head(rest)) /\ HasArg(Head(rest)) /\ origin.some)
          => (origin' = origin /\ lines' = lines)]_vars
    /\ [][(AtLine /\ IsDirective(Head(rest)) /\ HasArg(Head(rest)) /\ ~origin.some)
          => (/\ origin' = Some(Tokens(Head(rest))[2])
              /\ lines' = Append(lines, CodeOf(Head(rest))))]_vars

C4_Witness ==
    /\ pc = "cleaning"
    /\ Consumed >= 2
    /\ IsDirective(Physical[Consumed]) /\ HasArg(Physical[Consumed])
    /\ ArgDirectives(Consumed - 1) # {}
    /\ origin.some
    /\ origin.val # Tokens(Physical[Consumed])[2]
    /\ \A i \in 1..Len(lines) : lines[i] # CodeOf(Physical[Consumed])

(***************************************************************************)
(* C5: a directive line without a second token never changes the origin:   *)
(* a bare ORG is dropped, a bare END is kept, the origin keeps its value   *)
(* and cleaning goes on with the following lines.                          *)
(***************************************************************************)
C5_BareDirective ==
    /\ [][(AtLine /\ IsDirective(Head(rest)) /\ ~HasArg(Head(rest)))
          => (/\ origin' = origin
              /\ Keyword(Head(rest)) = "ORG" => lines' = lines
              /\ Keyword(Head(rest)) = "END" => lines' = Append(lines, CodeOf(Head(rest)))
              /\ pc' = "cleaning" /\ rest' = Tail(rest))]_vars
    /\ [](pc = "clean" => metadata.origin = origin)

C5_Witness ==
    /\ pc = "clean"
    /\ \E i, j, k \in 1..Len(Physical) :
          /\ i < j /\ j < k
          /\ Keyword(Physical[i]) = "END" /\ ~HasArg(Physical[i])
          /\ Keyword(Physical[j]) = "ORG" /\ ~HasArg(Physical[j])
          /\ IsDirective(Physical[k]) /\ HasArg(Physical[k])
          /\ lines = <<CodeOf(Physical[i]), CodeOf(Physical[k])>>
          /\ metadata.origin = Some(Tokens(Physical[k])[2])

(***************************************************************************)
(* C6: the Cleaner removes everything after an END directive: no physical  *)
(* line that follows an END line reaches the output.                       *)
(***************************************************************************)
EndSeen == \E i \in 1..Consumed : Keyword(Physical[i]) = "END"

\* C6: once an END line was consumed, no later line is added to the output
C6_NothingKeptAfterEnd ==
    [][(AtLine /\ EndSeen) => lines' = lines]_vars

(***************************************************************************)
(* C7: after cleaning, each recognized tag's metadata field holds the      *)
(* remainder of the last comment whose first token is that tag, with       *)
(* leading and trailing whitespace removed ("" without remainder, unset    *)
(* when the tag never occurs).                                             *)
(***************************************************************************)
FirstToken(s) == IF split_whitespace(s) = <<>> THEN "" ELSE split_whitespace(s)[1]

TagLines(tag) ==
    {i \in 1..Len(Physical) :
        HasComment(Physical[i]) /\ FirstToken(CommentOf(Physical[i])) = tag}

RemainderAfterTag(comment, tag) ==
    LET t == trim(comment)
    IN  trim(SubSeq(t, Len(tag) + 1, Len(t)))

ExpectedTag(tag) ==
    IF TagLines(tag) = {} THEN None
    ELSE Some(RemainderAfterTag(CommentOf(Physical[Greatest(TagLines(tag))]), tag))

\* C7: each tag field is the trimmed remainder of the last comment carrying that tag
C7_TagValuesTrimmed ==
    pc = "clean" => \A tag \in InfoTags : metadata[tag] = ExpectedTag(tag)

(***************************************************************************)
(* C8: cleaning is total and its output normalized: every returned line is *)
(* non-empty, has no leading or trailing whitespace and no ';', the lines  *)
(* keep the input's relative order, and a physical line whose code part is *)
(* empty never appears.                                                    *)
(***************************************************************************)
C8_OutputNormalized ==
    /\ pc \in {"raw", "cleaning", "clean"}
    /\ pc \in {"cleaning", "clean"} =>
          /\ \A i \in 1..Len(lines) :
                /\ lines[i] # ""
                /\ Ch(lines[i], 1) \notin Whitespace
                /\ Ch(lines[i], Len(lines[i])) \notin Whitespace
                /\ FirstIn(lines[i], {";"}) = 0
          /\ IsSubsequence(lines,
                SelectSeq([i \in 1..Consumed |-> CodeOf(Physical[i])],
                          LAMBDA c : c # ""))
    /\ pc = "clean" => rest = <<>>

C8_Witness ==
    /\ pc = "clean"
    /\ Len(Physical) = 3
    /\ Physical[1] = " ; nothing here"
    /\ Physical[2] = "  MOV 0, 1 ; name  my  warrior "
    /\ lines = <<"MOV 0, 1", "baz.">>

(***************************************************************************)
(* C2: round trip.  Rendering the deserialized instructions with           *)
(* Instruction::to_string and running the text through the pipeline again  *)
(* yields the identical instruction sequence (opcode, modifier, fields).   *)
(***************************************************************************)
IsNumeric(i) == i.field_a.value.kind = "Literal" /\ i.field_b.value.kind = "Literal"
AllNumeric == \A k \in 1..Len(instructions) : IsNumeric(instructions[k])

\* the deserialized instructions rendered to text, one to_string per line
Rendered == dump_lines(instructions)

\* the pipeline on a text: clean, expand, deserialize
Reparse(text) == deserialize(expand(extract_from_string(text).lines).lines)

RoundTrips(again) == again.kind = "Ok" /\ again.instructions = instructions

\* C2: the rendered text of the deserialized instructions parses back to the same instructions
C2_RoundTrip == (pc = "deserialized" /\ AllNumeric) => RoundTrips(Reparse(Rendered))

(***************************************************************************)
(* C9: an instruction line that has only field A gets field B =            *)
(* (Direct, 0); when it has no modifier either, the modifier is the one    *)
(* the table gives for its opcode, field A's mode and Direct.              *)
(***************************************************************************)
OnlyFieldA(l) == FirstIn(l, {","}) = 0
NoModifier(l) == FirstIn(l, {"."}) = 0
IsInstructionLine(l) == GrammarInstruction(l).ok
InstructionLines == SelectSeq(lines, IsInstructionLine)
(* in a panic.                                                             *)
(***************************************************************************)
CleanedInput == extract_from_string(input).lines

UndefinedRefs ==
    UNION {SymbolsIn(CleanedInput[k]) : k \in 1..Len(CleanedInput)}
       \ {CleanedInput[k] : k \in {j \in 1..Len(CleanedInput) :
                                      IsLabelDeclaration(CleanedInput[j])}}

\* C10: a reference to an undefined label ends the run in the UnknownSymbol error
C10_UndefinedLabelFails ==
    (UndefinedRefs # {} /\ pc \in {"expand", "deserialized", "error", "panic"}) =>
       /\ pc = "error"
       /\ error.some
       /\ error.val.kind = "UnknownSymbol"
       /\ error.val.name \in UndefinedRefs

(***************************************************************************)
(* C11: deserialization is all-or-nothing.  The step that deserializes the *)
(* expanded lines either ends in the Deserialized phase with one           *)
(* instruction for every line that is an Instruction rule, in input order, *)
(* or, when a line fails to parse, ends in the error for the first such    *)
(* line with no instruction sequence at all.                               *)
(***************************************************************************)
IsRuleInstruction(l) == GrammarParse(l).kind = "Instruction"
FailsToParse(l) == GrammarParse(l).kind = "Err"
FailingLines == {k \in 1..Len(lines) : FailsToParse(lines[k])}
InstructionOf(l) == parse_instruction(GrammarParse(l).tree)

C11_AllReturned(il) ==
    /\ pc = "deserialized"
    /\ Len(instructions) = Len(il)
    /\ \A k \in 1..Len(il) : Some(instructions[k]) = InstructionOf(il[k])

C11_NothingReturned ==
    /\ pc = "error"
    /\ instructions = <<>>
    /\ error = Some([kind |-> "ParseError", line |-> lines[Least(FailingLines)]])

C11_Outcome ==
    IF FailingLines = {}
    THEN C11_AllReturned(SelectSeq(lines, IsRuleInstruction))
    ELSE C11_NothingReturned

\* the run is past a call of deserialize: it returned, or it panicked (a panic
\* of a run without undefined references is not one of the expansion)
Deserialized ==
    \/ pc \in {"deserialized", "error"}
    \/ pc = "panic" /\ UndefinedRefs = {}

\* C11: every call of deserialize returns all instructions or an error and nothing else
C11_AllOrNothing == Deserialized => C11_Outcome

\* C11 without the panic: a call that returns is all-or-nothing
C11_AllOrNothingWhenReturning == pc \in {"deserialized", "error"} => C11_Outcome

(***************************************************************************)
(* C12: Core index bounds.  In every call on a Core built with             *)
(* Core::new(n): get(i) with i >= n returns None without failing, get(i)   *)
(* with i < n returns slot i, set(i, v) with i >= n fails and leaves every *)
(* slot and the length as they were, set(i, v) with i < n writes v to slot *)
(* i and to no other slot, and the length stays n.                         *)
(***************************************************************************)
C12_Get ==
    /\ pc' = "core"
    /\ core' = core
    /\ ret'.index >= core_size => ret'.value = None
    /\ ret'.index < core_size => ret'.value = Some(core[ret'.index + 1])

C12_Set ==
    IF ret'.index >= core_size
    THEN pc' = "panic" /\ core' = core
    ELSE /\ pc' = "core"
         /\ core'[ret'.index + 1] = ret'.value
         /\ \A j \in (1..core_size) \ {ret'.index + 1} : core'[j] = core[j]

C12_Call ==
    /\ core_size' = core_size
    /\ Len(core') = core_size
    /\ ret'.op = "get" => C12_Get
    /\ ret'.op = "set" => C12_Set

\* C12: get out of range is None, set out of range fails and changes nothing, the length stays n
C12_IndexBounds == [][C12_Call]_vars

C12_Witness ==
    /\ pc = "panic"
    /\ core_size = 2
    /\ ret = [op |-> "set", index |-> 2, value |-> DatA]
    /\ core = <<InstructionDefault, Imp>>

(***************************************************************************)
(* C13: Core dumps.  dump_all() renders one line per slot, line i being    *)
(* the text of slot i; dump() renders, in ascending index order, one line  *)
(* for each slot whose instruction is not (DAT, F, Direct 0, Direct 0);    *)
(* a Core fresh from Core::new(n) has n such default slots, and its dump() *)
(* is empty.                                                               *)
(***************************************************************************)
DefaultSlot ==
    [opcode |-> "Dat", modifier |-> "F",
     field_a |-> [address_mode |-> "Direct", value |-> [kind |-> "Literal", n |-> 0]],
     field_b |-> [address_mode |-> "Direct", value |-> [kind |-> "Literal", n |-> 0]]]

NonDefaultSlots == {k \in 1..Len(core) : core[k] # DefaultSlot}
NthNonDefault(j) ==
    CHOOSE k \in NonDefaultSlots : Cardinality({m \in NonDefaultSlots : m <= k}) = j

EndsEveryLine(text) == text = "" \/ Ch(text, Len(text)) = "\n"
RenderedLines(text) == split_terminator(text)

C13_DumpAll ==
    /\ EndsEveryLine(ret.text)
    /\ RenderedLines(ret.text) = [k \in 1..core_size |-> InstructionToString(core[k])]

C13_Dump ==
    /\ EndsEveryLine(ret.text)
    /\ RenderedLines(ret.text)
          = [j \in 1..Cardinality(NonDefaultSlots) |->
                InstructionToString(core[NthNonDefault(j)])]
    /\ NonDefaultSlots = {} => ret.text = ""

\* C13: dump_all renders every slot, dump the non-default slots in index order; a new Core is all default
C13_CoreDumps ==
    /\ ret.op = "new" => core = [k \in 1..core_size |-> DefaultSlot]
    /\ ret.op = "dump_all" => C13_DumpAll
    /\ ret.op = "dump" => C13_Dump

C13_Witness ==
    /\ ret.op = "dump"
    /\ core = <<InstructionDefault, DatA>>
    /\ ret.text = "DAT $0, $0\n"

(***************************************************************************)
(* C14: Core equality is structural.  self == rhs is true exactly when     *)
(* the two Cores have the same length and equal instructions at every      *)
(* index; Cores of different sizes never compare equal.                    *)
(***************************************************************************)
SameLength == Len(core) = Len(rhs)
SameSlots == \A k \in 1..Len(core) : core[k] = rhs[k]

\* C14: == returns true exactly for Cores of the same length with equal slots
C14_StructuralEquality ==
    ret.op = "eq" => (ret.value <=> (SameLength /\ SameSlots))

====
